---- MODULE Spec2Model ----
(***************************************************************************)
(* Model of the IDERA validator (src/app.py): the field-name truncator,    *)
(* the geometry normaliser, the mandatory-field validator and the          *)
(* Streamlit wizard script that chains them on every rerun.                *)
(*                                                                         *)
(* Column names are sequences of one-character strings, so that slicing    *)
(* (c[:10]) and str() are computed as Python computes them.                *)
(***************************************************************************)
EXTENDS Integers, Sequences, FiniteSets, TLC

VARIABLES cols, usados, resultado, retorno,   \* truncar_unico
          gdf, og,                            \* arguments of the functions
          norm,                               \* outcome of normalizar_geometria
          errores,                            \* outcome of validar_idera
          uploaded, crs_sel, og_cod, sel,     \* widget state of the session
          edits, editor_base,                 \* data_editor widget state
          gdf_editado,                        \* st.session_state.gdf_editado
          pc, boton, hecho,                   \* the running script
          mapeo, gdf_final, zip               \* locals of the script

varsFunciones == <<cols, usados, resultado, retorno, gdf, og, norm, errores>>

varsSesion == <<uploaded, crs_sel, og_cod, sel, edits, editor_base, gdf_editado>>

varsScript == <<pc, boton, hecho, mapeo, gdf_final, zip>>

vars == <<cols, usados, resultado, retorno, gdf, og, norm, errores,
          uploaded, crs_sel, og_cod, sel, edits, editor_base, gdf_editado,
          pc, boton, hecho, mapeo, gdf_final, zip>>

(***************************************************************************)
(* Bounds of the model                                                     *)
(***************************************************************************)
MaxCols == 3          \* longest enumerated column list
MaxCola == 1          \* longest tail appended to a stem
NumRepetidas == 11    \* length of the list of identical names
MaxFilas == 2         \* most records of an enumerated feature table
MaxAtributos == 2     \* most attributes of an enumerated catalog object

LIMITE == 10          \* DBF field-name width used by truncar_unico

(***************************************************************************)
(* Python helpers                                                          *)
(***************************************************************************)
Min(a, b) == IF a < b THEN a ELSE b
Max(a, b) == IF a > b THEN a ELSE b

\* s[:n] with Python's semantics (a negative n counts from the end)
Slice(s, n) ==
    IF n >= 0 THEN SubSeq(s, 1, Min(n, Len(s)))
              ELSE SubSeq(s, 1, Max(0, Len(s) + n))

Digito == <<"0", "1", "2", "3", "4", "5", "6", "7", "8", "9">>

\* str(n) for a non-negative integer
RECURSIVE str(_)
str(n) == IF n < 10 THEN <<Digito[n + 1]>>
                    ELSE str(n \div 10) \o <<Digito[(n % 10) + 1]>>

(***************************************************************************)
(* truncar_unico                                                           *)
(***************************************************************************)
\* mutants of NombreColision: the suffix taken before the increment, and the
\* suffix appended without trimming the base
NombreColisionDesdeUno(base, n) ==
    LET suf == str(n - 1) IN Slice(base, LIMITE - Len(suf)) \o suf

NombreColisionSinRecorte(base, n) == base \o str(n)

\* name appended for a base that is already in usados, given its new count
NombreColision(base, n) ==
    LET suf == str(n) IN Slice(base, LIMITE - Len(suf)) \o suf

\* one iteration of the loop body: e = [usados, resultado], c the column
truncar_paso(e, c) ==
    LET base == Slice(c, LIMITE) IN
    IF base \notin DOMAIN e.usados
    THEN [usados    |-> [b \in DOMAIN e.usados \cup {base} |->
                            IF b = base THEN 1 ELSE e.usados[b]],
          resultado |-> Append(e.resultado, base)]
    ELSE [usados    |-> [e.usados EXCEPT ![base] = @ + 1],
          resultado |-> Append(e.resultado,
                               NombreColision(base, e.usados[base] + 1))]

\* the whole function, as the fold of the loop body over cols
RECURSIVE truncar_desde(_, _, _)
truncar_desde(e, cs, i) ==
    IF i > Len(cs) THEN e ELSE truncar_desde(truncar_paso(e, cs[i]), cs, i + 1)

truncar_unico(cs) ==
    truncar_desde([usados |-> <<>>, resultado |-> <<>>], cs, 1).resultado

(***************************************************************************)
(* Feature tables and catalog objects                                      *)
(*                                                                         *)
(* A table is [columnas, filas]: the attribute column names in order (the  *)
(* geometry column is implicit and last) and the records, each with a      *)
(* geometry [tipo, partes, valido] and the values of its columns.  A       *)
(* catalog object is [nombre, geometria, atributos]; atributos is the      *)
(* ordered dict of the catalog, a sequence of [campo, obligatorio].        *)
(* "Linea" and "Poligono" stand for the catalog's accented kind names.     *)
(***************************************************************************)
NA == "<NA>"

TablaVacia == [columnas |-> <<>>, filas |-> <<>>, crs |-> "sin_crs"]

SinObjeto == [nombre |-> "", geometria |-> {}, atributos |-> <<>>]

\* gdf.geom_type.unique(): the kinds present, in order of first appearance
RECURSIVE Unicos(_)
Unicos(s) ==
    IF s = <<>> THEN <<>>
    ELSE LET r == Unicos(SubSeq(s, 1, Len(s) - 1)) IN
         IF \E k \in 1..Len(r) : r[k] = s[Len(s)] THEN r
                                                  ELSE Append(r, s[Len(s)])

geom_type_unique(t) == Unicos([k \in 1..Len(t.filas) |-> t.filas[k].geom.tipo])

Rango(s) == {s[k] : k \in 1..Len(s)}

(***************************************************************************)
(* normalizar_geometria                                                    *)
(***************************************************************************)
MAPEO_GEOMETRIA ==
    [Punto    |-> <<"Point", "MultiPoint">>,
     Linea    |-> <<"LineString", "MultiLineString">>,
     Poligono |-> <<"Polygon", "MultiPolygon">>]

\* MAPEO_GEOMETRIA.get(g, [])
MapeoGet(g) == IF g \in DOMAIN MAPEO_GEOMETRIA THEN MAPEO_GEOMETRIA[g] ELSE <<>>

\* the list built by the loop of lines 82-85, as the set of its elements
tipos_validos(o) == UNION {Rango(MapeoGet(g)) : g \in o.geometria}

\* gdf.geometry.apply(lambda g: Multi...([g]))
Envolver(t, multi) ==
    [t EXCEPT !.filas = [k \in 1..Len(t.filas) |->
        [t.filas[k] EXCEPT !.geom = [tipo |-> multi, partes |-> 1,
                                     valido |-> t.filas[k].geom.valido]]]]

SinError == [clase |-> "", motivo |-> "", tipos |-> <<>>, permitidos |-> {}]

SinNorm == [estado |-> "pendiente", gdf |-> TablaVacia, error |-> SinError]

\* mutants of normalizar_geometria: the kinds are counted with > 2, and the
\* final else returns the table instead of raising
normalizar_geometria_mas_de_dos(t, o) ==
    LET ta == geom_type_unique(t) IN
    IF Len(ta) > 2
    THEN [estado |-> "error", gdf |-> t,
          error |-> [clase |-> "ValueError", motivo |-> "multiples",
                     tipos |-> ta, permitidos |-> {}]]
    ELSE IF Len(ta) = 0
    THEN [estado |-> "error", gdf |-> t,
          error |-> [SinError EXCEPT !.clase = "IndexError"]]
    ELSE IF ta[1] \in tipos_validos(o)
    THEN [estado |-> "ok", gdf |-> t, error |-> SinError]
    ELSE [estado |-> "error", gdf |-> t,
          error |-> [clase |-> "ValueError", motivo |-> "no_permitido",
                     tipos |-> <<ta[1]>>, permitidos |-> o.geometria]]

normalizar_geometria_sin_raise(t, o) ==
    LET ta == geom_type_unique(t) IN
    IF Len(ta) > 1
    THEN [estado |-> "error", gdf |-> t,
          error |-> [clase |-> "ValueError", motivo |-> "multiples",
                     tipos |-> ta, permitidos |-> {}]]
    ELSE IF Len(ta) = 0
    THEN [estado |-> "error", gdf |-> t,
          error |-> [SinError EXCEPT !.clase = "IndexError"]]
    ELSE [estado |-> "ok", gdf |-> t, error |-> SinError]

\* normalizar_geometria(gdf, og): gdf is the table after the call (the code
\* assigns gdf["geometry"] in place), estado tells a return from a raise
normalizar_geometria(t, o) ==
    LET ta == geom_type_unique(t)
        tv == tipos_validos(o)
    IN
    IF Len(ta) > 1
    THEN [estado |-> "error", gdf |-> t,
          error |-> [clase |-> "ValueError", motivo |-> "multiples",
                     tipos |-> ta, permitidos |-> {}]]
    ELSE IF Len(ta) = 0
    THEN \* tipo_actual[0] on an empty array
         [estado |-> "error", gdf |-> t,
          error |-> [SinError EXCEPT !.clase = "IndexError"]]
    ELSE LET tipo_actual == ta[1] IN
         IF tipo_actual \notin tv
         THEN IF tipo_actual = "Point" /\ "MultiPoint" \in tv
              THEN [estado |-> "ok", gdf |-> Envolver(t, "MultiPoint"),
                    error |-> SinError]
              ELSE IF tipo_actual = "LineString" /\ "MultiLineString" \in tv
              THEN [estado |-> "ok", gdf |-> Envolver(t, "MultiLineString"),
                    error |-> SinError]
              ELSE IF tipo_actual = "Polygon" /\ "MultiPolygon" \in tv
              THEN [estado |-> "ok", gdf |-> Envolver(t, "MultiPolygon"),
                    error |-> SinError]
              ELSE [estado |-> "error", gdf |-> t,
                    error |-> [clase |-> "ValueError", motivo |-> "no_permitido",
                               tipos |-> <<tipo_actual>>,
                               permitidos |-> o.geometria]]
         ELSE [estado |-> "ok", gdf |-> t, error |-> SinError]

(***************************************************************************)
(* validar_idera                                                           *)
(***************************************************************************)
FALTA == "Falta el campo obligatorio"
VACIO == "Campo obligatorio vacio"
INVALIDAS == "Existen geometrias invalidas"

SinErrores == [listo |-> FALSE, valor |-> <<>>, tabla |-> TablaVacia]

\* campo in gdf.columns
EnColumnas(t, campo) == campo \in Rango(t.columnas)

\* gdf[campo].isna().any()
isna_any(t, campo) == \E k \in 1..Len(t.filas) : t.filas[k].vals[campo] = NA

\* gdf.is_valid.all()
is_valid_all(t) == \A k \in 1..Len(t.filas) : t.filas[k].geom.valido

\* the loop of lines 118-123 from attribute i on, appending to errs
RECURSIVE validar_campos(_, _, _, _)
validar_campos(t, o, i, errs) ==
    IF i > Len(o.atributos) THEN errs
    ELSE LET campo == o.atributos[i].campo IN
         validar_campos(t, o, i + 1,
            IF o.atributos[i].obligatorio
            THEN IF ~EnColumnas(t, campo)
                 THEN Append(errs, [texto |-> FALTA, campo |-> campo])
                 ELSE IF isna_any(t, campo)
                 THEN Append(errs, [texto |-> VACIO, campo |-> campo])
                 ELSE errs
            ELSE errs)

\* mutant of validar_idera: the first violation ends the validation
validar_idera_primer_error(t, o) ==
    LET errs == validar_campos(t, o, 1, <<>>) IN
    IF errs # <<>> THEN <<errs[1]>>
    ELSE IF ~is_valid_all(t) THEN <<[texto |-> INVALIDAS, campo |-> ""]>>
    ELSE <<>>

validar_idera(t, o) ==
    LET errs == validar_campos(t, o, 1, <<>>) IN
    IF ~is_valid_all(t) THEN Append(errs, [texto |-> INVALIDAS, campo |-> ""])
                        ELSE errs

(***************************************************************************)
(* Helpers of the script                                                   *)
(***************************************************************************)
\* reparar_encoding: text that is UTF-8 read as Latin-1 is decoded again,
\* anything else (other text, pd.NA) comes back as it is.  "PeA~+-a" stands
\* for the mis-decoded form of "Pen~a".
reparar_encoding(texto) == IF texto = "PeA~+-a" THEN "Pen~a" ELSE texto

\* unicodedata.normalize("NFKD", ch): "A'" stands for the accented capital,
\* "'" for the combining accent it decomposes into
NFKD(ch) == IF ch = "A'" THEN <<"A", "'">> ELSE <<ch>>

EsASCII(ch) == ch # "'" /\ ch # "A'"

Minusculas == [A |-> "a", B |-> "b", P |-> "p", X |-> "x"]

lower(ch) == IF ch \in DOMAIN Minusculas THEN Minusculas[ch] ELSE ch

\* the characters [a-z0-9_] keeps
Permitidos ==
    {"a","b","c","d","e","f","g","h","i","j","k","l","m","n","o","p","q","r",
     "s","t","u","v","w","x","y","z","0","1","2","3","4","5","6","7","8","9","_"}

RECURSIVE Aplanar(_)
Aplanar(ss) == IF ss = <<>> THEN <<>> ELSE Head(ss) \o Aplanar(Tail(ss))

normalizar_nombre_archivo(texto) ==
    LET nfkd   == Aplanar([k \in 1..Len(texto) |-> NFKD(texto[k])])
        ascii  == SelectSeq(nfkd, EsASCII)
        minus  == [k \in 1..Len(ascii) |->
                     IF lower(ascii[k]) = " " THEN "_" ELSE lower(ascii[k])]
        EnPermitidos(ch) == ch \in Permitidos
    IN  SelectSeq(minus, EnPermitidos)

(***************************************************************************)
(* The catalog, the uploaded files and the widgets                         *)
(*                                                                         *)
(* catalogo/catalogo_idera.json is data read at start-up; the model uses a *)
(* catalog of two objects that share the mandatory attribute "nombre".     *)
(* Every file has the one source column "Nombre": difflib matches it to    *)
(* the attribute "nombre" (ratio 1.0 after lower()) and to no other        *)
(* attribute of the catalog (ratios below the 0.6 cutoff).                 *)
(***************************************************************************)
Objetos ==
    [A |-> [nombre    |-> <<"P","l","a","z","a"," ","X">>,
            geometria |-> {"Punto"},
            atributos |-> <<[campo |-> "nombre",    obligatorio |-> TRUE],
                            [campo |-> "categoria", obligatorio |-> FALSE]>>],
     B |-> [nombre    |-> <<"A'","r","e","a"," ","(","B",")">>,
            geometria |-> {"Punto", "Poligono"},
            atributos |-> <<[campo |-> "tipo",   obligatorio |-> FALSE],
                            [campo |-> "nombre", obligatorio |-> TRUE]>>]]

\* the spelling of the names that are formatted or truncated
Deletrear ==
    [A         |-> <<"A">>,
     B         |-> <<"B">>,
     nombre    |-> <<"n","o","m","b","r","e">>,
     categoria |-> <<"c","a","t","e","g","o","r","i","a">>,
     tipo      |-> <<"t","i","p","o">>,
     geometry  |-> <<"g","e","o","m","e","t","r","y">>]

\* first option of the "Objeto geografico" selectbox
OBJETO_INICIAL == "A"

\* the values of CRS_SALIDA the operator chooses among
CRS_SALIDA == {"None", "5340", "4326"}

\* first option of the CRS selectbox: keep the original system
CRS_INICIAL == "None"

SIN_ASIGNAR == "sin asignar"

Punto(valido) == [tipo |-> "Point", partes |-> 1, valido |-> valido]

FilasArchivo ==
    { <<[geom |-> Punto(TRUE), vals |-> [Nombre |-> "Plaza X"]]>>,
      <<[geom |-> Punto(FALSE), vals |-> [Nombre |-> "PeA~+-a"]]>>,
      <<[geom |-> Punto(TRUE), vals |-> [Nombre |-> "Plaza X"]],
        [geom |-> Punto(TRUE), vals |-> [Nombre |-> NA]]>>,
      <<[geom |-> Punto(TRUE), vals |-> [Nombre |-> "Plaza X"]],
        [geom |-> [tipo |-> "Polygon", partes |-> 1, valido |-> TRUE],
         vals |-> [Nombre |-> "Plaza X"]]>> }

\* "custom" is a CRS without an EPSG code, "sin_crs" no CRS at all
Archivos ==
    [columnas : {<<"Nombre">>}, filas : FilasArchivo,
     crs : {"sin_crs", "custom", "4326"}]

SinArchivo == [hay |-> FALSE, archivo |-> TablaVacia]

SinTabla == [hay |-> FALSE, tabla |-> TablaVacia]

SinZip == [hay |-> FALSE, nombre |-> <<>>, columnas |-> <<>>, tabla |-> TablaVacia]

SinEdicion == [campo |-> "", valor |-> ""]

SinBase == [hay |-> FALSE, columnas |-> <<>>, vals |-> <<>>]

\* gdf.crs.to_epsg() if gdf.crs else None
crs_actual(t) == IF t.crs \in {"sin_crs", "custom"} THEN "None" ELSE t.crs

atributos_idera(o) == [k \in 1..Len(o.atributos) |-> o.atributos[k].campo]

\* difflib.get_close_matches(attr.lower(), columns in lower case, n=1,
\* cutoff=0.6) mapped back to the source column, or SIN_ASIGNAR
sugerida(attr, columnas_origen) ==
    IF attr = "nombre" /\ "Nombre" \in Rango(columnas_origen)
    THEN "Nombre" ELSE SIN_ASIGNAR

\* lines 260-281: every attribute's selectbox keeps the value it had if it
\* was rendered by the previous run and starts at the suggestion otherwise
RenderizarMapeo(s, o, columnas_origen) ==
    [a \in Rango(atributos_idera(o)) |->
        IF a \in DOMAIN s THEN s[a] ELSE sugerida(a, columnas_origen)]

\* lines 258 and 280-281: the assigned attributes only
MapeoDe(s) == [a \in {x \in DOMAIN s : s[x] # SIN_ASIGNAR} |-> s[a]]

\* lines 295-313: the clean table built from the mapping
Construir(t, o, m) ==
    [columnas |-> atributos_idera(o),
     crs      |-> t.crs,
     filas    |-> [k \in 1..Len(t.filas) |->
                    [geom |-> t.filas[k].geom,
                     vals |-> [a \in Rango(atributos_idera(o)) |->
                                IF a \in DOMAIN m
                                THEN reparar_encoding(t.filas[k].vals[m[a]])
                                ELSE NA]]]]

\* what st.data_editor is given: the clean table without its geometry
DatosDe(t) ==
    [hay |-> TRUE, columnas |-> t.columnas,
     vals |-> [k \in 1..Len(t.filas) |-> t.filas[k].vals]]

\* lines 316-323: the edited cells written back over the attribute columns
AplicarEdicion(t, ed) ==
    IF ed = SinEdicion \/ ed.campo \notin Rango(t.columnas) THEN t
    ELSE [t EXCEPT !.filas = [k \in 1..Len(t.filas) |->
            [t.filas[k] EXCEPT !.vals[ed.campo] = ed.valor]]]

\* the edits the operator makes: one column filled with a value or emptied
Ediciones == [campo : {"nombre", "categoria", "tipo"}, valor : {"x", NA}]

(***************************************************************************)
(* The script: one run per interaction of the operator, top to bottom      *)
(***************************************************************************)
AsistenteInactivo ==
    /\ uploaded = SinArchivo
    /\ crs_sel = CRS_INICIAL
    /\ og_cod = OBJETO_INICIAL
    /\ sel = <<>>
    /\ edits = SinEdicion
    /\ editor_base = SinBase
    /\ gdf_editado = SinTabla
    /\ pc = "espera"
    /\ boton = FALSE
    /\ hecho = {}
    /\ mapeo = <<>>
    /\ gdf_final = SinTabla
    /\ zip = SinZip

\* a rerun starts: the locals of the script are fresh
Rerun(pulsado) ==
    /\ pc' = "carga"
    /\ boton' = pulsado
    /\ hecho' = {}
    /\ mapeo' = <<>>
    /\ gdf_final' = SinTabla
    /\ zip' = SinZip
    /\ gdf' = TablaVacia
    /\ og' = SinObjeto
    /\ norm' = SinNorm
    /\ errores' = SinErrores
    /\ UNCHANGED <<cols, usados, resultado, retorno>>

\* the operator uploads a file (lines 155-158)
Subir ==
    /\ pc = "espera"
    /\ \E f \in Archivos :
         /\ uploaded # [hay |-> TRUE, archivo |-> f]
         /\ uploaded' = [hay |-> TRUE, archivo |-> f]
    /\ Rerun(FALSE)
    /\ UNCHANGED <<crs_sel, og_cod, sel, edits, editor_base, gdf_editado>>

\* the operator removes the uploaded file
Quitar ==
    /\ pc = "espera"
    /\ uploaded.hay
    /\ uploaded' = SinArchivo
    /\ Rerun(FALSE)
    /\ UNCHANGED <<crs_sel, og_cod, sel, edits, editor_base, gdf_editado>>

\* the operator picks an output CRS (lines 178-181)
ElegirCRS ==
    /\ pc = "espera"
    /\ "carga" \in hecho
    /\ \E c \in CRS_SALIDA : c # crs_sel /\ crs_sel' = c
    /\ Rerun(FALSE)
    /\ UNCHANGED <<uploaded, og_cod, sel, edits, editor_base, gdf_editado>>

\* the operator picks a catalog object (lines 202-220)
ElegirObjeto ==
    /\ pc = "espera"
    /\ "objeto" \in hecho
    /\ \E o \in DOMAIN Objetos : o # og_cod /\ og_cod' = o
    /\ Rerun(FALSE)
    /\ UNCHANGED <<uploaded, crs_sel, sel, edits, editor_base, gdf_editado>>

\* the operator assigns, changes or clears one entry of the mapping
\* (lines 273-278)
ElegirMapeo ==
    /\ pc = "espera"
    /\ "mapeo" \in hecho
    /\ \E a \in DOMAIN sel :
         \E op \in {SIN_ASIGNAR} \cup Rango(uploaded.archivo.columnas) :
            /\ op # sel[a]
            /\ sel' = [sel EXCEPT ![a] = op]
    /\ Rerun(FALSE)
    /\ UNCHANGED <<uploaded, crs_sel, og_cod, edits, editor_base, gdf_editado>>

\* the operator edits cells of the displayed table (lines 316-320)
Editar ==
    /\ pc = "espera"
    /\ "limpio" \in hecho
    /\ \E ed \in Ediciones :
         /\ ed.campo \in Rango(editor_base.columnas)
         /\ ed # edits
         /\ edits' = ed
    /\ Rerun(FALSE)
    /\ UNCHANGED <<uploaded, crs_sel, og_cod, sel, editor_base, gdf_editado>>

\* the operator presses "Validar y generar SHP" (line 337)
PulsarBoton ==
    /\ pc = "espera"
    /\ "boton" \in hecho
    /\ Rerun(TRUE)
    /\ UNCHANGED varsSesion

\* the run ends before the widgets from `desde` on are rendered: their state
\* is dropped.  desde: 3 the object selectbox, 6 the mapping, 7 the editor
Descartar(desde) ==
    /\ og_cod' = IF desde <= 3 THEN OBJETO_INICIAL ELSE og_cod
    /\ sel' = IF desde <= 6 THEN <<>> ELSE sel
    /\ edits' = SinEdicion
    /\ editor_base' = SinBase

\* lines 160-166: without a file the script stops, else the file is read
PasoCarga ==
    /\ pc = "carga"
    /\ IF ~uploaded.hay
       THEN /\ pc' = "espera"
            /\ crs_sel' = CRS_INICIAL
            /\ Descartar(3)
            /\ UNCHANGED <<gdf, hecho>>
       ELSE /\ pc' = "crs"
            /\ gdf' = uploaded.archivo
            /\ hecho' = hecho \cup {"carga"}
            /\ UNCHANGED <<crs_sel, og_cod, sel, edits, editor_base>>
    /\ UNCHANGED <<cols, usados, resultado, retorno, og, norm, errores,
                   uploaded, gdf_editado, boton, mapeo, gdf_final, zip>>

\* mutant of PasoCRS: the undefined-CRS error is shown but the run goes on
PasoCRSSinStop ==
    /\ pc = "crs"
    /\ LET epsg_salida == crs_sel IN
       IF epsg_salida # "None" /\ gdf.crs # "sin_crs"
                               /\ crs_actual(gdf) # epsg_salida
       THEN /\ gdf' = [gdf EXCEPT !.crs = epsg_salida]
            /\ hecho' = hecho \cup {"reproyectar"}
       ELSE /\ hecho' = IF epsg_salida # "None" /\ gdf.crs = "sin_crs"
                        THEN hecho \cup {"error_crs"} ELSE hecho
            /\ UNCHANGED gdf
    /\ pc' = "normalizar"
    /\ UNCHANGED <<cols, usados, resultado, retorno, og, norm, errores,
                   varsSesion, boton, mapeo, gdf_final, zip>>

\* lines 175-193: the reprojection step
PasoCRS ==
    /\ pc = "crs"
    /\ LET epsg_salida == crs_sel IN
       IF epsg_salida # "None"
       THEN IF gdf.crs = "sin_crs"
            THEN \* st.error, st.stop()
                 /\ pc' = "espera"
                 /\ hecho' = hecho \cup {"error_crs"}
                 /\ Descartar(3)
                 /\ UNCHANGED gdf
            ELSE IF crs_actual(gdf) # epsg_salida
            THEN /\ gdf' = [gdf EXCEPT !.crs = epsg_salida]
                 /\ hecho' = hecho \cup {"reproyectar"}
                 /\ pc' = "normalizar"
                 /\ UNCHANGED <<og_cod, sel, edits, editor_base>>
            ELSE /\ pc' = "normalizar"
                 /\ UNCHANGED <<gdf, hecho, og_cod, sel, edits, editor_base>>
       ELSE /\ pc' = "normalizar"
            /\ UNCHANGED <<gdf, hecho, og_cod, sel, edits, editor_base>>
    /\ UNCHANGED <<cols, usados, resultado, retorno, og, norm, errores,
                   uploaded, crs_sel, gdf_editado, boton, mapeo, gdf_final, zip>>

\* lines 202-237: the object is looked up and the geometry normalised; an
\* exception of normalizar_geometria ends the run
PasoNormalizar ==
    /\ pc = "normalizar"
    /\ og' = Objetos[og_cod]
    /\ LET r == normalizar_geometria(gdf, Objetos[og_cod]) IN
       /\ norm' = [r EXCEPT !.gdf = gdf]
       /\ gdf' = r.gdf
       /\ IF r.estado = "error"
          THEN /\ pc' = "espera"
               /\ hecho' = hecho \cup {"objeto", "error_geometria"}
               /\ Descartar(6)
          ELSE /\ pc' = "mapeo"
               /\ hecho' = hecho \cup {"objeto", "normalizar"}
               /\ UNCHANGED <<og_cod, sel, edits, editor_base>>
    /\ UNCHANGED <<cols, usados, resultado, retorno, errores,
                   uploaded, crs_sel, gdf_editado, boton, mapeo, gdf_final, zip>>

\* lines 255-281: the mapping selectboxes
PasoMapeo ==
    /\ pc = "mapeo"
    /\ sel' = RenderizarMapeo(sel, og, gdf.columnas)
    /\ mapeo' = MapeoDe(RenderizarMapeo(sel, og, gdf.columnas))
    /\ hecho' = hecho \cup {"mapeo"}
    /\ pc' = "limpio"
    /\ UNCHANGED <<cols, usados, resultado, retorno, gdf, og, norm, errores,
                   uploaded, crs_sel, og_cod, edits, editor_base, gdf_editado,
                   boton, gdf_final, zip>>

\* lines 291-334: with a mapping the clean table is built, edited and stored
\* in the session; then the stored table, if any, becomes gdf_final
PasoLimpio ==
    /\ pc = "limpio"
    /\ IF DOMAIN mapeo = {}
       THEN /\ edits' = SinEdicion
            /\ editor_base' = SinBase
            /\ gdf_final' = gdf_editado
            /\ IF gdf_editado.hay
               THEN pc' = "validar" /\ hecho' = hecho \cup {"boton"}
               ELSE pc' = "espera" /\ UNCHANGED hecho
            /\ UNCHANGED gdf_editado
       ELSE LET limpio == Construir(gdf, og, mapeo)
                ed     == IF editor_base = DatosDe(limpio) THEN edits
                                                           ELSE SinEdicion
                final  == [hay |-> TRUE, tabla |-> AplicarEdicion(limpio, ed)]
            IN  /\ edits' = ed
                /\ editor_base' = DatosDe(limpio)
                /\ gdf_editado' = final
                /\ gdf_final' = final
                /\ hecho' = hecho \cup {"limpio", "boton"}
                /\ pc' = "validar"
    /\ UNCHANGED <<cols, usados, resultado, retorno, gdf, og, norm, errores,
                   uploaded, crs_sel, og_cod, sel, boton, mapeo, zip>>

\* mutant of PasoValidar: the messages are listed but the run goes on
PasoValidarSinStop ==
    /\ pc = "validar"
    /\ IF ~boton
       THEN pc' = "espera" /\ UNCHANGED <<errores, hecho>>
       ELSE /\ errores' = [listo |-> TRUE,
                           valor |-> validar_idera(gdf_final.tabla, og),
                           tabla |-> gdf_final.tabla]
            /\ hecho' = hecho \cup {"validar"}
            /\ pc' = "exportar"
    /\ UNCHANGED <<cols, usados, resultado, retorno, gdf, og, norm,
                   varsSesion, boton, mapeo, gdf_final, zip>>

\* lines 337-352: when the button was pressed, gdf_final is validated and
\* the run stops on a non-empty list
PasoValidar ==
    /\ pc = "validar"
    /\ IF ~boton
       THEN pc' = "espera" /\ UNCHANGED <<errores, hecho>>
       ELSE /\ errores' = [listo |-> TRUE,
                           valor |-> validar_idera(gdf_final.tabla, og),
                           tabla |-> gdf_final.tabla]
            /\ hecho' = hecho \cup {"validar"}
            /\ pc' = IF validar_idera(gdf_final.tabla, og) # <<>>
                     THEN "espera" ELSE "exportar"
    /\ UNCHANGED <<cols, usados, resultado, retorno, gdf, og, norm,
                   varsSesion, boton, mapeo, gdf_final, zip>>

\* lines 363-385: the columns are truncated, the archive is written and the
\* download button is shown
PasoExportar ==
    /\ pc = "exportar"
    /\ LET columnas == gdf_final.tabla.columnas \o <<"geometry">>
           og_name  == normalizar_nombre_archivo(og.nombre)
       IN  zip' = [hay      |-> TRUE,
                   nombre   |-> Deletrear[og_cod] \o <<"_">> \o og_name,
                   columnas |-> truncar_unico([k \in 1..Len(columnas) |->
                                                 Deletrear[columnas[k]]]),
                   tabla    |-> gdf_final.tabla]
    /\ hecho' = hecho \cup {"exportar"}
    /\ pc' = "espera"
    /\ UNCHANGED <<cols, usados, resultado, retorno, gdf, og, norm, errores,
                   varsSesion, boton, mapeo, gdf_final>>


(***************************************************************************)
(* Inputs of the truncator                                                 *)
(***************************************************************************)
Letras == {"a", "2"}

SeqHasta(S, n) == UNION {[1..k -> S] : k \in 0..n}

Tallos == {<<>>, [i \in 1..(LIMITE - 1) |-> "a"], [i \in 1..LIMITE |-> "a"]}

Nombres == {t \o c : t \in Tallos, c \in SeqHasta(Letras, MaxCola)}

\* "precipitacion_promedio", "precipitacion_maxima"
PrecipitacionPromedio ==
    <<"p","r","e","c","i","p","i","t","a","c","i","o","n","_",
      "p","r","o","m","e","d","i","o">>
PrecipitacionMaxima ==
    <<"p","r","e","c","i","p","i","t","a","c","i","o","n","_",
      "m","a","x","i","m","a">>
EjemploCols == <<PrecipitacionPromedio, PrecipitacionMaxima>>

\* many columns sharing one base, so that suffixes reach two digits
RepetidasCols == [i \in 1..NumRepetidas |-> PrecipitacionMaxima]

ListasCols == SeqHasta(Nombres, MaxCols) \cup {EjemploCols, RepetidasCols}

(***************************************************************************)
(* Specification of the truncator: one action per loop iteration           *)
(***************************************************************************)
SinRetorno == [listo |-> FALSE, valor |-> <<>>]

TruncarInactivo ==
    /\ cols = <<>>
    /\ usados = <<>>
    /\ resultado = <<>>
    /\ retorno = SinRetorno

InitTruncar ==
    /\ cols \in ListasCols
    /\ usados = <<>>
    /\ resultado = <<>>
    /\ retorno = SinRetorno
    /\ gdf = TablaVacia
    /\ og = SinObjeto
    /\ norm = SinNorm
    /\ errores = SinErrores
    /\ AsistenteInactivo

\* iteration on a base seen for the first time (lines 106-108)
TruncarNuevo ==
    /\ ~retorno.listo
    /\ Len(resultado) < Len(cols)
    /\ Slice(cols[Len(resultado) + 1], LIMITE) \notin DOMAIN usados
    /\ LET e == truncar_paso([usados |-> usados, resultado |-> resultado],
                             cols[Len(resultado) + 1])
       IN  usados' = e.usados /\ resultado' = e.resultado
    /\ UNCHANGED <<cols, retorno, gdf, og, norm, errores, varsSesion, varsScript>>

\* iteration on a base already produced (lines 109-112)
TruncarColision ==
    /\ ~retorno.listo
    /\ Len(resultado) < Len(cols)
    /\ Slice(cols[Len(resultado) + 1], LIMITE) \in DOMAIN usados
    /\ LET e == truncar_paso([usados |-> usados, resultado |-> resultado],
                             cols[Len(resultado) + 1])
       IN  usados' = e.usados /\ resultado' = e.resultado
    /\ UNCHANGED <<cols, retorno, gdf, og, norm, errores, varsSesion, varsScript>>

\* the loop is exhausted: return resultado (line 113)
TruncarReturn ==
    /\ ~retorno.listo
    /\ Len(resultado) = Len(cols)
    /\ retorno' = [listo |-> TRUE, valor |-> resultado]
    /\ UNCHANGED <<cols, usados, resultado, gdf, og, norm, errores, varsSesion, varsScript>>

NextTruncar == TruncarNuevo \/ TruncarColision \/ TruncarReturn

SpecTruncar == InitTruncar /\ [][NextTruncar]_vars

(***************************************************************************)
(* Claims about truncar_unico                                              *)
(***************************************************************************)
Digitos == {Digito[i] : i \in 1..10}

Precipitac == <<"p","r","e","c","i","p","i","t","a","c">>
Precipita1 == <<"p","r","e","c","i","p","i","t","a","1">>
Precipita2 == <<"p","r","e","c","i","p","i","t","a","2">>

\* number of columns up to position i whose first ten characters are those
\* of column i
Ocurrencia(i) ==
    Cardinality({j \in 1..i : SubSeq(cols[j], 1, Min(10, Len(cols[j])))
                                = SubSeq(cols[i], 1, Min(10, Len(cols[i])))})

\* C1: for any input sequence of column names, the names returned by
\* truncar_unico are pairwise distinct.
C1_SalidaSinDuplicados ==
    retorno.listo =>
        \A i, j \in 1..Len(retorno.valor) :
            i # j => retorno.valor[i] # retorno.valor[j]

\* C2 (as stated): "precipitacion_promedio" followed by
\* "precipitacion_maxima" yields "precipita1" and "precipita2".
C2_EjemploDesdeUno ==
    (retorno.listo /\ cols = EjemploCols)
        => retorno.valor = <<Precipita1, Precipita2>>

\* C2 (amended): the example yields "precipitac" and "precipita2"; in
\* general the first column with a given 10-character candidate keeps the
\* candidate and its k-th occurrence (k >= 2) gets the candidate trimmed to
\* 10 - len(str(k)) characters followed by str(k): suffixes start at 2.
C2_NumeracionDesdeDos ==
    /\ (retorno.listo /\ cols = EjemploCols)
          => retorno.valor = <<Precipitac, Precipita2>>
    /\ \A i \in 1..Len(resultado) :
          LET cand == SubSeq(cols[i], 1, Min(10, Len(cols[i])))
              k    == Ocurrencia(i)
              suf  == str(k)
          IN  resultado[i] =
                IF k = 1 THEN cand
                ELSE SubSeq(cand, 1, Min(Len(cand), 10 - Len(suf))) \o suf

C2_Testigo ==
    /\ retorno.listo /\ cols = EjemploCols
    /\ retorno.valor[2] = Precipita2

\* out is a prefix of inp followed by a (possibly empty) run of digits
PrefijoMasSufijo(out, inp) ==
    \E p \in 0..Min(Len(out), Len(inp)) :
        /\ SubSeq(out, 1, p) = SubSeq(inp, 1, p)
        /\ \A q \in (p + 1)..Len(out) : out[q] \in Digitos

SinRepetidos(s) == \A i, j \in 1..Len(s) : i # j => s[i] # s[j]

\* C3: truncar_unico returns a sequence of the same length as its input,
\* every name has at most 10 characters, the name at position i is a prefix
\* of input name i optionally followed by a numeric suffix, and an input of
\* pairwise distinct names of at most 10 characters is returned unchanged.
C3_LargoOrdenIdentidad ==
    retorno.listo =>
        /\ Len(retorno.valor) = Len(cols)
        /\ \A i \in 1..Len(retorno.valor) :
              /\ Len(retorno.valor[i]) <= 10
              /\ PrefijoMasSufijo(retorno.valor[i], cols[i])
        /\ (SinRepetidos(cols) /\ \A i \in 1..Len(cols) : Len(cols[i]) <= 10)
              => retorno.valor = cols

\* a returned list with a trimmed, suffixed name of a long input name
C3_Testigo ==
    /\ retorno.listo
    /\ \E i \in 1..Len(cols) :
          /\ Len(cols[i]) > 10
          /\ Len(retorno.valor[i]) = 10
          /\ retorno.valor[i] # SubSeq(cols[i], 1, 10)


(***************************************************************************)
(* Specification of normalizar_geometria: the inputs are every table of    *)
(* up to MaxFilas records over the geometry kinds and every set of         *)
(* catalog kinds, and the action is the call                               *)
(***************************************************************************)
TiposSimples == {"Point", "LineString", "Polygon"}
TiposMulti == {"MultiPoint", "MultiLineString", "MultiPolygon"}

GeometriasEntrada ==
    [tipo : TiposSimples \cup {"GeometryCollection"}, partes : {1}, valido : {TRUE}]
    \cup [tipo : TiposMulti, partes : 1..2, valido : {TRUE}]

\* "Otro" is a kind name MAPEO_GEOMETRIA does not know
GeometriasCatalogo == SUBSET {"Punto", "Linea", "Poligono", "Otro"}

TablasNormalizar ==
    {[columnas |-> <<"c1">>, crs |-> "4326",
      filas |-> [k \in 1..Len(gs) |-> [geom |-> gs[k], vals |-> [c1 |-> "v"]]]] :
        gs \in SeqHasta(GeometriasEntrada, MaxFilas)}

InitNormalizar ==
    /\ TruncarInactivo
    /\ gdf \in TablasNormalizar
    /\ og \in {[nombre |-> "objeto", geometria |-> g, atributos |-> <<>>] :
                    g \in GeometriasCatalogo}
    /\ norm = SinNorm
    /\ errores = SinErrores
    /\ AsistenteInactivo

Normalizar ==
    /\ norm.estado = "pendiente"
    /\ norm' = [normalizar_geometria(gdf, og) EXCEPT !.gdf = gdf]
    /\ gdf' = normalizar_geometria(gdf, og).gdf
    /\ UNCHANGED <<cols, usados, resultado, retorno, og, errores, varsSesion, varsScript>>

NextNormalizar == Normalizar

SpecNormalizar == InitNormalizar /\ [][NextNormalizar]_vars

(***************************************************************************)
(* Claims about normalizar_geometria.  norm.gdf holds the table as it was  *)
(* passed to the call, gdf the table after it.                             *)
(***************************************************************************)
TiposDe(t) == {t.filas[k].geom.tipo : k \in 1..Len(t.filas)}

FamiliaDe(tipo) ==
    IF tipo \in {"Point", "MultiPoint"} THEN "Punto"
    ELSE IF tipo \in {"LineString", "MultiLineString"} THEN "Linea"
    ELSE IF tipo \in {"Polygon", "MultiPolygon"} THEN "Poligono"
    ELSE "ninguna"

MultiDe(tipo) ==
    IF tipo = "Point" THEN "MultiPoint"
    ELSE IF tipo = "LineString" THEN "MultiLineString"
    ELSE IF tipo = "Polygon" THEN "MultiPolygon"
    ELSE tipo

\* the concrete kinds a catalog object allows
Expansion(o) ==
    {tp \in TiposSimples \cup TiposMulti : FamiliaDe(tp) \in o.geometria}

\* C4: a table whose records all have one single-part kind, normalised for
\* an object that allows that kind's family, comes back with every geometry
\* of the multi-part kind of the family and the same number of records.
C4_SimpleAMulti ==
    (/\ norm.estado # "pendiente"
     /\ \E tp \in TiposSimples :
           TiposDe(norm.gdf) = {tp} /\ FamiliaDe(tp) \in og.geometria)
    => /\ norm.estado = "ok"
       /\ Len(gdf.filas) = Len(norm.gdf.filas)
       /\ \A k \in 1..Len(gdf.filas) :
             gdf.filas[k].geom.tipo = MultiDe(norm.gdf.filas[k].geom.tipo)

\* C5: on a table with two or more distinct geometry kinds, whatever the
\* catalog object, the call fails with the mixed-geometry error and the
\* table is left as it was.
C5_MezclaFalla ==
    (norm.estado # "pendiente" /\ Cardinality(TiposDe(norm.gdf)) >= 2)
    => /\ norm.estado = "error"
       /\ norm.error.clase = "ValueError"
       /\ norm.error.motivo = "multiples"
       /\ Rango(norm.error.tipos) = TiposDe(norm.gdf)
       /\ gdf = norm.gdf

C5_Testigo ==
    /\ norm.estado = "error" /\ norm.error.motivo = "multiples"
    /\ Cardinality(TiposDe(norm.gdf)) >= 2
    /\ "Punto" \in og.geometria /\ "Point" \in TiposDe(norm.gdf)

\* C6: on a table of one kind that is not in the expansion of the object's
\* allowed kinds the call fails with the incompatible-geometry error, which
\* names the kind and the allowed set, and the table is left as it was; on
\* a table of one kind that is in the expansion the call returns the table
\* as it was.
C6_IncompatibleONoop ==
    (norm.estado # "pendiente" /\ Cardinality(TiposDe(norm.gdf)) = 1)
    => LET tp == CHOOSE x \in TiposDe(norm.gdf) : TRUE IN
       /\ gdf = norm.gdf
       /\ tp \in Expansion(og) => norm.estado = "ok"
       /\ tp \notin Expansion(og) =>
             /\ norm.estado = "error"
             /\ norm.error.clase = "ValueError"
             /\ norm.error.motivo = "no_permitido"
             /\ norm.error.tipos = <<tp>>
             /\ norm.error.permitidos = og.geometria

C6_Testigo ==
    /\ norm.estado = "error" /\ norm.error.motivo = "no_permitido"
    /\ TiposDe(norm.gdf) = {"Point"} /\ og.geometria = {"Poligono"}
    /\ gdf = norm.gdf


(***************************************************************************)
(* Specification of validar_idera: the inputs are every catalog object of  *)
(* up to MaxAtributos attributes and every table of up to MaxFilas records *)
(* over a subset of those attribute names, and the action is the call      *)
(***************************************************************************)
NombresAtributo == <<"nombre", "categoria", "codigo", "tipo">>

CamposModelo == {NombresAtributo[i] : i \in 1..MaxAtributos}

Inyectiva(s) == \A i, j \in 1..Len(s) : i # j => s[i] # s[j]

\* the ordered attribute dicts: pairwise distinct keys, each with its rule
AtributosCatalogo ==
    {a \in SeqHasta([campo : CamposModelo, obligatorio : BOOLEAN], MaxAtributos) :
        Inyectiva([k \in 1..Len(a) |-> a[k].campo])}

\* the columns of a table, in the order of NombresAtributo
EnOrden(C) ==
    LET RECURSIVE desde(_)
        desde(i) == IF i > Len(NombresAtributo) THEN <<>>
                    ELSE IF NombresAtributo[i] \in C
                         THEN <<NombresAtributo[i]>> \o desde(i + 1)
                         ELSE desde(i + 1)
    IN desde(1)

TablasValidar ==
    UNION {{[columnas |-> EnOrden(C), crs |-> "4326", filas |-> f] :
                f \in SeqHasta([geom : [tipo : {"Point"}, partes : {1},
                                        valido : BOOLEAN],
                                vals : [C -> {NA, "x"}]], MaxFilas)} :
           C \in SUBSET CamposModelo}

InitValidar ==
    /\ TruncarInactivo
    /\ gdf \in TablasValidar
    /\ og \in {[nombre |-> "objeto", geometria |-> {"Punto"}, atributos |-> a] :
                    a \in AtributosCatalogo}
    /\ norm = SinNorm
    /\ errores = SinErrores
    /\ AsistenteInactivo

Validar ==
    /\ ~errores.listo
    /\ errores' = [listo |-> TRUE, valor |-> validar_idera(gdf, og), tabla |-> gdf]
    /\ UNCHANGED <<cols, usados, resultado, retorno, gdf, og, norm, varsSesion, varsScript>>

NextValidar == Validar

SpecValidar == InitValidar /\ [][NextValidar]_vars

(***************************************************************************)
(* Claim about validar_idera                                               *)
(***************************************************************************)
\* position of campo in the catalog's declared order
PosicionDe(o, campo) == CHOOSE i \in 1..Len(o.atributos) : o.atributos[i].campo = campo

Ausente(t, campo) == campo \notin Rango(t.columnas)

ConNulos(t, campo) ==
    ~Ausente(t, campo) /\ \E k \in 1..Len(t.filas) : t.filas[k].vals[campo] = NA

HayInvalidas(t) == \E k \in 1..Len(t.filas) : ~t.filas[k].geom.valido

MensajesDe(e, campo) == {k \in 1..Len(e) : e[k].campo = campo}

\* C7: the list returned by validar_idera holds exactly one message per
\* mandatory attribute in violation ("missing" when its column is absent,
\* "empty" when the column exists and some record's value is null), in the
\* catalog's order, plus exactly one aggregate message, last, when a
\* geometry is invalid; optional attributes produce none, so the list is
\* empty exactly when every mandatory column is present and non-null and
\* every geometry is valid.
C7_UnMensajePorViolacion ==
    errores.listo =>
        LET e == errores.valor
            campos == {og.atributos[i].campo : i \in 1..Len(og.atributos)}
            atributo(c) == og.atributos[PosicionDe(og, c)]
        IN
        /\ \A k \in 1..Len(e) :
              \/ e[k].texto \in {FALTA, VACIO} /\ e[k].campo \in campos
              \/ e[k].texto = INVALIDAS /\ e[k].campo = "" /\ k = Len(e)
        /\ \A c \in campos :
              /\ Cardinality(MensajesDe(e, c)) =
                    IF atributo(c).obligatorio /\ (Ausente(gdf, c) \/ ConNulos(gdf, c))
                    THEN 1 ELSE 0
              /\ \A k \in MensajesDe(e, c) :
                    e[k].texto = IF Ausente(gdf, c) THEN FALTA ELSE VACIO
        /\ \A k1, k2 \in 1..Len(e) :
              (k1 < k2 /\ e[k2].texto # INVALIDAS)
                => PosicionDe(og, e[k1].campo) < PosicionDe(og, e[k2].campo)
        /\ Cardinality({k \in 1..Len(e) : e[k].texto = INVALIDAS}) =
              IF HayInvalidas(gdf) THEN 1 ELSE 0
        /\ (e = <<>>) <=>
              /\ \A i \in 1..Len(og.atributos) :
                    og.atributos[i].obligatorio =>
                        ~Ausente(gdf, og.atributos[i].campo)
                        /\ ~ConNulos(gdf, og.atributos[i].campo)
              /\ ~HayInvalidas(gdf)

\* a missing column, an empty column and an invalid geometry in one call
C7_Testigo ==
    /\ errores.listo /\ Len(errores.valor) = 3
    /\ errores.valor[1].texto = FALTA
    /\ errores.valor[2].texto = VACIO
    /\ errores.valor[3].texto = INVALIDAS

(***************************************************************************)
(* Specification of the wizard                                             *)
(***************************************************************************)
InitAsistente ==
    /\ TruncarInactivo
    /\ gdf = TablaVacia
    /\ og = SinObjeto
    /\ norm = SinNorm
    /\ errores = SinErrores
    /\ AsistenteInactivo

NextAsistente ==
    \/ Subir \/ Quitar \/ ElegirCRS \/ ElegirObjeto \/ ElegirMapeo \/ Editar
    \/ PulsarBoton
    \/ PasoCarga \/ PasoCRS \/ PasoNormalizar \/ PasoMapeo \/ PasoLimpio
    \/ PasoValidar \/ PasoExportar

SpecAsistente == InitAsistente /\ [][NextAsistente]_vars


(***************************************************************************)
(* Claims about the wizard                                                 *)
(***************************************************************************)
Obligatorios(o) ==
    {o.atributos[i].campo : i \in {j \in 1..Len(o.atributos) : o.atributos[j].obligatorio}}

\* C8: the export step is reached only in a run where the button was
\* pressed and validar_idera, called on the final table (the session's
\* edited table), returned an empty list, and the archive holds that table;
\* a run whose list is non-empty stops there and produces no archive.
C8_ExportarSoloTrasValidar ==
    /\ (pc = "exportar" \/ "exportar" \in hecho \/ zip.hay) =>
          /\ boton /\ "validar" \in hecho
          /\ errores.listo /\ errores.valor = <<>>
          /\ gdf_final.hay /\ gdf_final = gdf_editado
          /\ errores.tabla = gdf_final.tabla
    /\ zip.hay =>
          /\ zip.tabla = errores.tabla
          /\ \A c \in Obligatorios(Objetos[og_cod]) :
                /\ c \in Rango(zip.tabla.columnas)
                /\ \A k \in 1..Len(zip.tabla.filas) : zip.tabla.filas[k].vals[c] # NA
          /\ \A k \in 1..Len(zip.tabla.filas) : zip.tabla.filas[k].geom.valido
    /\ (errores.listo /\ errores.valor # <<>>) =>
          /\ pc = "espera"
          /\ "exportar" \notin hecho
          /\ ~zip.hay

\* an archive was produced after a validation without messages
C8_Testigo ==
    /\ zip.hay /\ errores.listo /\ errores.valor = <<>>
    /\ "validar" \in hecho /\ "exportar" \in hecho

\* a reprojection target is selected and the uploaded table has no CRS
SinCRSConDestino ==
    /\ uploaded.hay
    /\ uploaded.archivo.crs = "sin_crs"
    /\ crs_sel # "None"

PasosPosteriores ==
    {"reproyectar", "objeto", "normalizar", "error_geometria", "mapeo",
     "limpio", "boton", "validar", "exportar"}

C9_Estado ==
    /\ (SinCRSConDestino /\ pc \notin {"carga", "crs"}) =>
          /\ pc = "espera"
          /\ "error_crs" \in hecho
          /\ hecho \cap PasosPosteriores = {}
          /\ norm.estado = "pendiente"
          /\ ~errores.listo
          /\ ~zip.hay
    /\ (uploaded.hay /\ (crs_sel = "None"
                         \/ crs_actual(uploaded.archivo) = crs_sel)) =>
          /\ "reproyectar" \notin hecho
          /\ pc \notin {"carga", "crs"} => gdf.crs = uploaded.archivo.crs

\* C9: with a reprojection target selected and a table without CRS the run
\* reports the undefined-CRS error and stops there: no reprojection,
\* normalisation, clean table, validation or export happens in it and the
\* session's edited table is not modified; with "keep original" selected,
\* or a detected CRS equal to the target, no reprojection is performed.
C9_SinCRSDetiene ==
    /\ []C9_Estado
    /\ [][SinCRSConDestino' => gdf_editado' = gdf_editado]_vars

\* the run stopped at the CRS error while the session holds an edited table
C9_Testigo ==
    /\ SinCRSConDestino /\ pc = "espera"
    /\ "error_crs" \in hecho
    /\ gdf_editado.hay

\* C10: the table validated (and then exported) when the button is pressed
\* was built in that same run, and its columns are exactly the declared
\* attributes of the currently selected object, in catalog order.
C10_TablaDeEstaCorrida ==
    errores.listo =>
        /\ "limpio" \in hecho
        /\ errores.tabla.columnas = atributos_idera(Objetos[og_cod])

====
